---- MODULE Spec2Model ----
(***************************************************************************)
(* A model of qrgenerator.py: the WiFi payload codec, input validation,    *)
(* the generation and decoding orchestrators, the custom-colour raster     *)
(* renderer and the dispatch done by main.                                 *)
(*                                                                         *)
(* Python strings are modelled as sequences of one-character strings, so   *)
(* that replace, split, strip, startswith and len are computed and not     *)
(* assumed.                                                                *)
(***************************************************************************)
EXTENDS Integers, Sequences, FiniteSets, TLC

VARIABLES
    \* WiFi payload codec
    ssid, password, security, hidden, wifi_string, wifi_info, wpc,
    \* validate_input
    text, valid, vpc,
    \* generate_qr: its arguments, the calls that raise, its outcome
    g_args, g_env, g_out, gpc,
    \* read_qr: the file and what the decoder makes of it, the outcome
    r_world, r_out, rpc,
    \* main: the parsed command line, and what the run did
    m_args, m_out, mpc,
    \* generate_colored_qr: the QR matrix, the colour names, the image
    modules, c_fg, c_bg, img, cpc

wifiVars == <<ssid, password, security, hidden, wifi_string, wifi_info, wpc>>
validateVars == <<text, valid, vpc>>
genVars == <<g_args, g_env, g_out, gpc>>
readVars == <<r_world, r_out, rpc>>
mainVars == <<m_args, m_out, mpc>>
renderVars == <<modules, c_fg, c_bg, img, cpc>>

vars == <<wifiVars, validateVars, genVars, readVars, mainVars, renderVars>>

\* what the actions of one component leave alone
notWifiVars == <<validateVars, genVars, readVars, mainVars, renderVars>>
notValidateVars == <<wifiVars, genVars, readVars, mainVars, renderVars>>
notGenVars == <<wifiVars, validateVars, readVars, mainVars, renderVars>>
notReadVars == <<wifiVars, validateVars, genVars, mainVars, renderVars>>
notMainVars == <<wifiVars, validateVars, genVars, readVars, renderVars>>
notRenderVars == <<wifiVars, validateVars, genVars, readVars, mainVars>>

----------------------------------------------------------------------------
(* Python str operations *)

\* s.startswith(p)
StartsWith(s, p) ==
    /\ Len(s) >= Len(p)
    /\ SubSeq(s, 1, Len(p)) = p

\* c in s, for a one-character c
Contains(s, c) == \E i \in 1..Len(s) : s[i] = c

\* s.find(c) + 1 for a one-character c that occurs in s
FirstIndex(s, c) == CHOOSE i \in 1..Len(s) : s[i] = c /\ \A j \in 1..(i - 1) : s[j] # c

\* s.replace(old, new): every non-overlapping occurrence, scanning left to right
RECURSIVE Replace(_, _, _)
Replace(s, old, new) ==
    IF Len(s) < Len(old) THEN s
    ELSE IF StartsWith(s, old)
         THEN new \o Replace(SubSeq(s, Len(old) + 1, Len(s)), old, new)
         ELSE <<Head(s)>> \o Replace(Tail(s), old, new)

\* s.split(c): the list of segments between the occurrences of c, never empty
RECURSIVE Split(_, _)
Split(s, c) ==
    IF ~Contains(s, c) THEN <<s>>
    ELSE LET i == FirstIndex(s, c)
         IN <<SubSeq(s, 1, i - 1)>> \o Split(SubSeq(s, i + 1, Len(s)), c)

\* s.split(c, 1) for an s that contains c: the text before and after the first c
SplitFirst(s, c) ==
    LET i == FirstIndex(s, c)
    IN <<SubSeq(s, 1, i - 1), SubSeq(s, i + 1, Len(s))>>

----------------------------------------------------------------------------
(* String literals of the program *)

WIFI_PREFIX == <<"W", "I", "F", "I", ":">>
EMPTY == << >>
WPA == <<"W", "P", "A">>
WEP == <<"W", "E", "P">>
NOPASS == <<"n", "o", "p", "a", "s", "s">>
STR_TRUE == <<"t", "r", "u", "e">>
STR_FALSE == <<"f", "a", "l", "s", "e">>
KEY_T == <<"T">>
KEY_S == <<"S">>
KEY_P == <<"P">>
KEY_H == <<"H">>

----------------------------------------------------------------------------
(* WiFi payload codec *)

\* hidden_flag = 'true' if hidden else 'false'
HiddenFlagSwapped(h) == IF h THEN STR_FALSE ELSE STR_TRUE
HiddenFlag(h) == IF h THEN STR_TRUE ELSE STR_FALSE

\* wifi_string = f"WIFI:T:{security};S:{ssid};P:{password};H:{hidden_flag};;"
WifiString(s, p, t, h) ==
    WIFI_PREFIX \o <<"T", ":">> \o t \o <<";", "S", ":">> \o s
        \o <<";", "P", ":">> \o p \o <<";", "H", ":">> \o HiddenFlag(h) \o <<";", ";">>

\* wifi_info[key] = value
DictSet(d, k, v) == [x \in (DOMAIN d) \cup {k} |-> IF x = k THEN v ELSE d[x]]

\* for part in parts: if ':' in part: key, value = part.split(':', 1); wifi_info[key] = value
RECURSIVE CollectParts(_, _)
CollectParts(parts, info) ==
    IF parts = << >> THEN info
    ELSE LET part == Head(parts)
         IN IF Contains(part, ":")
            THEN LET kv == SplitFirst(part, ":")
                 IN CollectParts(Tail(parts), DictSet(info, kv[1], kv[2]))
            ELSE CollectParts(Tail(parts), info)

\* parts = wifi_string.replace('WIFI:', '').split(';')
WifiParts(payload) == Split(Replace(payload, WIFI_PREFIX, EMPTY), ";")

\* the wifi_info mapping parse_wifi_qr builds (it holds only the keys found)
EmptyDict == [x \in {} |-> EMPTY]
ParseWifiQr(payload) == CollectParts(WifiParts(payload), EmptyDict)

----------------------------------------------------------------------------
(* validate_input *)

\* len(text) > 2953  # QR code limit for alphanumeric
MaxQrLen == 2953

\* the characters str.strip() removes
Whitespace == {" ", "\t", "\n", "\r", "\f"}
IsSpace(c) == c \in Whitespace

\* text.strip(): without its leading and trailing whitespace
Strip(s) ==
    IF \A i \in 1..Len(s) : IsSpace(s[i]) THEN EMPTY
    ELSE LET first == CHOOSE i \in 1..Len(s) :
                          ~IsSpace(s[i]) /\ \A j \in 1..(i - 1) : IsSpace(s[j])
             last == CHOOSE i \in 1..Len(s) :
                          ~IsSpace(s[i]) /\ \A j \in (i + 1)..Len(s) : IsSpace(s[j])
         IN SubSeq(s, first, last)

\* not text or not text.strip() ; len(text) > 2953
ValidateInputOffByOne(t) ==
    IF Len(t) = 0 \/ Len(Strip(t)) = 0
    THEN [ok |-> FALSE, message |-> "Input text cannot be empty"]
    ELSE IF Len(t) >= MaxQrLen
         THEN [ok |-> FALSE, message |-> "Input text is too long for QR code"]
         ELSE [ok |-> TRUE, message |-> "Valid"]
ValidateInput(t) ==
    IF Len(t) = 0 \/ Len(Strip(t)) = 0
    THEN [ok |-> FALSE, message |-> "Input text cannot be empty"]
    ELSE IF Len(t) > MaxQrLen
         THEN [ok |-> FALSE, message |-> "Input text is too long for QR code"]
         ELSE [ok |-> TRUE, message |-> "Valid"]

----------------------------------------------------------------------------
(* generate_qr and generate_colored_qr *)

BLACK == <<"b", "l", "a", "c", "k">>
WHITE == <<"w", "h", "i", "t", "e">>
RED == <<"r", "e", "d">>
BLUE == <<"b", "l", "u", "e">>
YELLOW == <<"y", "e", "l", "l", "o", "w">>
FMT_PNG == <<"p", "n", "g">>
FMT_SVG == <<"s", "v", "g">>
FMT_BOTH == <<"b", "o", "t", "h">>
QRCODES_DIR == <<"q", "r", "c", "o", "d", "e", "s", "/">>
EXT_SVG == <<".", "s", "v", "g">>
EXT_PNG == <<".", "p", "n", "g">>

\* str.lower(), character by character
UpperCase ==
    << "A", "B", "C", "D", "E", "F",
      "G", "H", "I", "J", "K", "L",
      "M", "N", "O", "P", "Q", "R",
      "S", "T", "U", "V", "W", "X",
      "Y", "Z" >>
LowerCase ==
    << "a", "b", "c", "d", "e", "f",
      "g", "h", "i", "j", "k", "l",
      "m", "n", "o", "p", "q", "r",
      "s", "t", "u", "v", "w", "x",
      "y", "z" >>
LowerChar(c) ==
    IF \E i \in 1..Len(UpperCase) : UpperCase[i] = c
    THEN LowerCase[CHOOSE i \in 1..Len(UpperCase) : UpperCase[i] = c]
    ELSE c
Lower(s) == [i \in 1..Len(s) |-> LowerChar(s[i])]

\* The calls of generate_qr that can raise, by call site:
\*   create        pyqrcode.create(raw_text)
\*   terminal      print(qr_code.terminal())
\*   svg           qr_code.svg(scale=10)
\*   open, write   open(svg_path, 'w'), f.write(svg_buffer)
\*   png           qr_code.png(png_path, scale=10) in generate_qr
\*   render        the colour lookup, Image.new and the drawing loop
\*   save          img.save(output_path)
\*   fallback_png  qr_code.png(output_path, scale=10) in the except branch
Faults == {"create", "terminal", "svg", "open", "write", "png", "render", "save", "fallback_png"}

\* the state of a call: the calls made so far with their outcome, the files, and
\* whether an exception is propagating
CallStart(fs) == [log |-> << >>, fs |-> fs, exc |-> FALSE]

\* one call that may raise; when it returns and writes a file, the file's content kind
Do(st, op, env, path, kind) ==
    IF st.exc THEN st
    ELSE IF op \in env
         THEN [st EXCEPT !.log = Append(@, <<op, "raise">>), !.exc = TRUE]
         ELSE [st EXCEPT !.log = Append(@, <<op, "ok">>),
                         !.fs = IF path = EMPTY THEN @ ELSE DictSet(@, path, kind)]

\* generate_colored_qr: the custom render in a try block; on any exception of it the
\* built-in writer is called, outside the try block
GenerateColoredQrNoFallback(st, output_path, env) ==
    Do(Do(st, "render", env, EMPTY, ""), "save", env, output_path, "png_colored")
GenerateColoredQr(st, output_path, env) ==
    IF st.exc THEN st
    ELSE LET tried == Do(Do(st, "render", env, EMPTY, ""), "save", env, output_path, "png_colored")
         IN IF tried.exc
            THEN Do([tried EXCEPT !.exc = FALSE], "fallback_png", env, output_path, "png_builtin")
            ELSE tried

\* except Exception: return False ; otherwise return True
GenerateQrResult(st) == [ret |-> ~st.exc, log |-> st.log, fs |-> st.fs]

GenerateQr(raw_text, file_name, output_format, fg_color, bg_color, env, fs) ==
    LET fmt == Lower(output_format)
        svg_path == QRCODES_DIR \o file_name \o EXT_SVG
        png_path == QRCODES_DIR \o file_name \o EXT_PNG
        encoded == Do(Do(CallStart(fs), "create", env, EMPTY, ""), "terminal", env, EMPTY, "")
        WriteSvg(st) ==
            Do(Do(Do(st, "svg", env, EMPTY, ""), "open", env, svg_path, "empty"),
               "write", env, svg_path, "svg")
        WritePng(st) ==
            IF fg_color = BLACK /\ bg_color = WHITE
            THEN Do(st, "png", env, png_path, "png_builtin")
            ELSE GenerateColoredQr(st, png_path, env)
    IN GenerateQrResult(
           IF fmt = FMT_SVG THEN WriteSvg(encoded)
           ELSE IF fmt = FMT_PNG THEN WritePng(encoded)
           ELSE IF fmt = FMT_BOTH THEN WritePng(WriteSvg(encoded))
           ELSE encoded)

----------------------------------------------------------------------------
(* generate_colored_qr: the custom-colour raster *)

GREEN == <<"g", "r", "e", "e", "n">>
PURPLE == <<"p", "u", "r", "p", "l", "e">>
ORANGE == <<"o", "r", "a", "n", "g", "e">>
PINK == <<"p", "i", "n", "k">>
CYAN == <<"c", "y", "a", "n">>
NAVY == <<"n", "a", "v", "y">>
DARKGREEN == <<"d", "a", "r", "k", "g", "r", "e", "e", "n">>

\* color_map
ColorNames ==
    << BLACK, WHITE, RED, GREEN, BLUE, YELLOW, PURPLE, ORANGE, PINK, CYAN, NAVY, DARKGREEN >>
ColorRgb ==
    << <<0, 0, 0>>, <<255, 255, 255>>, <<255, 0, 0>>, <<0, 255, 0>>, <<0, 0, 255>>,
       <<255, 255, 0>>, <<128, 0, 128>>, <<255, 165, 0>>, <<255, 192, 203>>, <<0, 255, 255>>,
       <<0, 0, 128>>, <<0, 100, 0>> >>

\* color_map.get(name.lower(), default)
ColorGet(name, default) ==
    LET key == Lower(name)
    IN IF \E i \in 1..Len(ColorNames) : ColorNames[i] = key
       THEN ColorRgb[CHOOSE i \in 1..Len(ColorNames) : ColorNames[i] = key]
       ELSE default

\* scale = 10
Scale == 10

\* Image.new('RGB', (img_size, img_size), bg_rgb): every pixel bg_rgb. Every rectangle
\* of the loop has the same fill, so the image is kept as its background, that fill and
\* the set of pixels painted with it, pixel (x, y) being number y * size + x.
ImageNew(img_size, bg_rgb, fg_rgb) ==
    [size |-> img_size, background |-> bg_rgb, fill |-> fg_rgb, painted |-> {}]

\* img.getpixel((x, y))
GetPixel(image, x, y) ==
    IF y * image.size + x \in image.painted THEN image.fill ELSE image.background

\* draw.rectangle([x1, y1, x2, y2], fill=...): the pixels Pillow fills, the bounding
\* box with both corner points included, clipped to the image
Rectangle(img_size, x1, y1, x2, y2) ==
    { y * img_size + x : x \in { v \in x1..x2 : v < img_size },
                         y \in { v \in y1..y2 : v < img_size } }

\* for row in range(module_count): for col in range(module_count):
\*     if modules[row][col]: draw.rectangle([x1, y1, x2, y2], fill=fg_rgb)
\* One fill colour is used throughout, so the order of the loops does not show in the
\* image: it is the union of the rectangles of the true cells.
DrawModules(mods, image) ==
    LET module_count == Len(mods)
        cells == { rc \in (0..(module_count - 1)) \X (0..(module_count - 1)) :
                       mods[rc[1] + 1][rc[2] + 1] # 0 }
        Block(row, col) ==
            LET x1 == col * Scale
                y1 == row * Scale
                x2 == x1 + Scale
                y2 == y1 + Scale
            IN Rectangle(image.size, x1, y1, x2, y2)
    IN [image EXCEPT !.painted = @ \cup UNION { Block(rc[1], rc[2]) : rc \in cells }]

\* the image generate_colored_qr saves
ColoredImage(mods, fg_color, bg_color) ==
    LET fg_rgb == ColorGet(fg_color, <<0, 0, 0>>)
        bg_rgb == ColorGet(bg_color, <<255, 255, 255>>)
        module_count == Len(mods)
        img_size == module_count * Scale
    IN DrawModules(mods, ImageNew(img_size, bg_rgb, fg_rgb))

----------------------------------------------------------------------------
(* generate_wifi_qr *)

\* def generate_qr(raw_text='', file_name='', output_format='png', fg_color='black', bg_color='white')
DefaultOutputFormatBoth == FMT_BOTH
DefaultOutputFormat == FMT_PNG
DefaultFgColor == BLACK
DefaultBgColor == WHITE

\* datetime.now().strftime('%Y%m%d_%H%M%S') and ('%Y-%m-%d_%H-%M-%S'): the clock's reading
NowCompact == <<"2", "0", "2", "6", "1", "1", "0", "1", "_", "2", "2", "1", "5", "0", "0">>
NowDashed ==
    <<"2", "0", "2", "6", "-", "1", "1", "-", "0", "1", "_", "2", "2", "-", "1", "5", "-", "0", "0">>

\* f"wifi_{ssid}_{datetime.now().strftime('%Y%m%d_%H%M%S')}"
WifiFileName(s) == <<"w", "i", "f", "i", "_">> \o s \o <<"_">> \o NowCompact

\* the record of a call of generate_qr with the arguments it received
GenerateQrEvent(raw_text, file_name, output_format, fg_color, bg_color) ==
    <<"generate_qr", raw_text, file_name, output_format, fg_color, bg_color>>

\* generate_wifi_qr: the payload, then generate_qr(wifi_string, file_name)
GenerateWifiQr(s, p, t, h, file_name, env, fs) ==
    LET name == IF file_name = EMPTY THEN WifiFileName(s) ELSE file_name
        payload == WifiString(s, p, t, h)
    IN [events |-> <<GenerateQrEvent(payload, name, DefaultOutputFormat,
                                     DefaultFgColor, DefaultBgColor)>>,
        result |-> GenerateQr(payload, name, DefaultOutputFormat,
                              DefaultFgColor, DefaultBgColor, env, fs)]

----------------------------------------------------------------------------
(* read_qr *)

HTTP == <<"h", "t", "t", "p">>
TEL == <<"t", "e", "l", ":">>
MAILTO == <<"m", "a", "i", "l", "t", "o", ":">>
NA == <<"N", "/", "A">>

DictGet(d, k, default) == IF k \in DOMAIN d THEN d[k] ELSE default

\* parse_wifi_qr as read_qr sees it: the tag line and the four fields it prints
WifiDisplay(payload) ==
    LET info == ParseWifiQr(payload)
    IN [SSID |-> DictGet(info, KEY_S, NA), Password |-> DictGet(info, KEY_P, NA),
        Security |-> DictGet(info, KEY_T, NA), Hidden |-> DictGet(info, KEY_H, STR_FALSE)]

\* the if/elif chain on decoded_text.startswith(...): the tag lines printed
ClassifySchemeStrict(decoded_text) ==
    IF StartsWith(decoded_text, WIFI_PREFIX) THEN <<"WiFi">>
    ELSE IF StartsWith(decoded_text, HTTP \o <<":", "/", "/">>) THEN <<"URL">>
    ELSE IF StartsWith(decoded_text, TEL) THEN <<"Phone">>
    ELSE IF StartsWith(decoded_text, MAILTO) THEN <<"Email">>
    ELSE << >>
Classify(decoded_text) ==
    IF StartsWith(decoded_text, WIFI_PREFIX) THEN <<"WiFi">>
    ELSE IF StartsWith(decoded_text, HTTP) THEN <<"URL">>
    ELSE IF StartsWith(decoded_text, TEL) THEN <<"Phone">>
    ELSE IF StartsWith(decoded_text, MAILTO) THEN <<"Email">>
    ELSE << >>

NoDisplay == [SSID |-> EMPTY, Password |-> EMPTY, Security |-> EMPTY, Hidden |-> EMPTY]
ReadReturn(ret, message) ==
    [exc |-> FALSE, ret |-> ret, message |-> message, content |-> << >>, tags |-> << >>,
     wifi |-> NoDisplay]
ReadRaise ==
    [exc |-> TRUE, ret |-> FALSE, message |-> "", content |-> << >>, tags |-> << >>,
     wifi |-> NoDisplay]

\* the try block of read_qr. w.exists: os.path.exists(file_name); w.open_raises:
\* Image.open raises; w.decode_raises: decode(image) raises; w.results: the decoder's
\* list, each result its text and whether its bytes are valid UTF-8
ReadQrTry(w) ==
    IF ~w.exists THEN ReadReturn(FALSE, "File not found")
    ELSE IF w.open_raises THEN ReadRaise
    ELSE IF w.decode_raises THEN ReadRaise
    ELSE IF Len(w.results) = 0 THEN ReadReturn(FALSE, "No QR code found in image")
    ELSE IF ~w.results[1].utf8 THEN ReadRaise
    ELSE LET decoded_text == w.results[1].text
         IN [exc |-> FALSE, ret |-> TRUE, message |-> "QR Code decoded successfully!",
             content |-> <<decoded_text>>, tags |-> Classify(decoded_text),
             wifi |-> IF StartsWith(decoded_text, WIFI_PREFIX)
                      THEN WifiDisplay(decoded_text) ELSE NoDisplay]

\* read_qr: except Exception: print the error, return False
ReadQrFirstAndLast(w) ==
    LET r == ReadQrTry(w)
    IN IF r.exc
       THEN [ret |-> FALSE, message |-> "Error reading QR code", content |-> << >>,
             tags |-> << >>, wifi |-> NoDisplay, propagated |-> FALSE]
       ELSE [ret |-> r.ret, message |-> r.message,
             content |-> IF r.ret /\ Len(w.results) > 1
                         THEN r.content \o <<w.results[Len(w.results)].text>> ELSE r.content,
             tags |-> r.tags, wifi |-> r.wifi, propagated |-> FALSE]
ReadQr(w) ==
    LET r == ReadQrTry(w)
    IN IF r.exc
       THEN [ret |-> FALSE, message |-> "Error reading QR code", content |-> << >>,
             tags |-> << >>, wifi |-> NoDisplay, propagated |-> FALSE]
       ELSE [ret |-> r.ret, message |-> r.message, content |-> r.content,
             tags |-> r.tags, wifi |-> r.wifi, propagated |-> FALSE]

----------------------------------------------------------------------------
(* Inputs of the codec *)

Ssids ==
    { <<"H", "o", "m", "e">>, <<"a", " ", "b">>, EMPTY, <<"W", "I", "F", "I">>,
      <<"x", ";", "y">>, <<"W", "I", "F", "I", ":", "n">> }
Passwords ==
    { <<"s", "3">>, EMPTY, <<"T">>, <<"p", ":", "q">>,
      <<"W", "I", "W", "I", "F", "I", ":", "F", "I", ":">> }
Securities == { WPA, WEP, NOPASS }
\* texts a scanner may hand to parse_wifi_qr: read_qr calls it for any 'WIFI:...' text
ForeignPayloads ==
    { WIFI_PREFIX,
      WIFI_PREFIX \o <<"S", ":", "n", ";", "j", "u", "n", "k", ";", "P", ":", "a", ":", "b", ";", ";">>,
      WIFI_PREFIX \o <<"S", ":", "a", ";", "S", ":", "b", ";">>,
      WIFI_PREFIX \o <<"T", ":", "W", "P", "A", ";", "P", ":">> \o WIFI_PREFIX \o <<"p", "w", ";", ";">> }

WifiInit ==
    /\ ssid \in Ssids
    /\ password \in Passwords
    /\ security \in Securities
    /\ hidden \in BOOLEAN
    /\ wifi_string = EMPTY
    /\ wifi_info = EmptyDict
    /\ wpc = "input"

\* generate_wifi_qr builds the payload from the credentials
Encode ==
    /\ wpc = "input"
    /\ wifi_string' = WifiString(ssid, password, security, hidden)
    /\ wpc' = "encoded"
    /\ UNCHANGED <<ssid, password, security, hidden, wifi_info>>
    /\ UNCHANGED notWifiVars

\* a payload that was not built by generate_wifi_qr is scanned
ScanForeign ==
    /\ wpc = "input"
    /\ \E p \in ForeignPayloads : wifi_string' = p
    /\ wpc' = "scanned"
    /\ UNCHANGED <<ssid, password, security, hidden, wifi_info>>
    /\ UNCHANGED notWifiVars

\* parse_wifi_qr on the payload
Decode ==
    /\ wpc \in {"encoded", "scanned"}
    /\ wifi_info' = ParseWifiQr(wifi_string)
    /\ wpc' = IF wpc = "encoded" THEN "roundtrip" ELSE "parsed"
    /\ UNCHANGED <<ssid, password, security, hidden, wifi_string>>
    /\ UNCHANGED notWifiVars

WifiNext == Encode \/ ScanForeign \/ Decode

WifiIdle ==
    /\ ssid = EMPTY /\ password = EMPTY /\ security = EMPTY /\ hidden = FALSE
    /\ wifi_string = EMPTY /\ wifi_info = EmptyDict /\ wpc = "idle"

----------------------------------------------------------------------------
NoDelimiter(s) == ~Contains(s, ";") /\ ~Contains(s, ":")

(* C1: for ssid and password without ';' and ':', security in {WPA, WEP,   *)
(* nopass} and either hidden flag, parsing the string built by             *)
(* generate_wifi_qr yields exactly S = ssid, P = password, T = security    *)
(* and H = 'true'/'false' matching hidden.                                 *)
C1_RoundTrip ==
    (wpc = "roundtrip" /\ NoDelimiter(ssid) /\ NoDelimiter(password))
        => /\ DOMAIN wifi_info = {KEY_S, KEY_P, KEY_T, KEY_H}
           /\ wifi_info[KEY_S] = ssid
           /\ wifi_info[KEY_P] = password
           /\ wifi_info[KEY_T] = security
           /\ wifi_info[KEY_H] = (IF hidden THEN STR_TRUE ELSE STR_FALSE)

C1_Witness ==
    /\ wpc = "roundtrip"
    /\ ssid = <<"W", "I", "F", "I">>
    /\ password = <<"T">>
    /\ security = NOPASS
    /\ hidden
    /\ wifi_info[KEY_H] = STR_TRUE

LeadingPrefixRemoved(payload) ==
    IF Len(payload) >= 5 /\ SubSeq(payload, 1, 5) = <<"W", "I", "F", "I", ":">>
    THEN SubSeq(payload, 6, Len(payload))
    ELSE payload

(* C8: parse_wifi_qr removes only a leading 'WIFI:' (later occurrences     *)
(* inside field values stay), splits the rest on ';', splits each segment  *)
(* that contains ':' on its first ':' and ignores the other segments.      *)
C8_LeadingPrefixOnly ==
    wpc \in {"roundtrip", "parsed"}
        => LET segments == Split(LeadingPrefixRemoved(wifi_string), ";")
               keyed == { i \in 1..Len(segments) : Contains(segments[i], ":") }
               Key(i) == SplitFirst(segments[i], ":")[1]
               Value(i) == SplitFirst(segments[i], ":")[2]
           IN /\ DOMAIN wifi_info = { Key(i) : i \in keyed }
              /\ \A i \in keyed :
                     (\A j \in keyed : j > i => Key(j) # Key(i)) => wifi_info[Key(i)] = Value(i)

----------------------------------------------------------------------------
(* Inputs of validate_input *)

\* how far around the length limit, and from the empty text, the texts reach
Slack == 1

Fill(c, n) == [i \in 1..n |-> c]
TextBases ==
    { EMPTY, <<"h", "e", "l", "l", "o">>, <<" ">>, <<" ", "a", "\t">>, <<"\n", " ">>, <<"a", " ", "b">> }
FillChars == {"a", " ", "\t"}
FillLens(b) == (0..Slack) \cup {MaxQrLen - Len(b) + d : d \in (0 - Slack)..Slack}
Texts ==
    UNION { { b \o Fill(c, n) : n \in FillLens(b) } \cup { Fill(c, n) \o b : n \in FillLens(b) } :
            <<b, c>> \in TextBases \X FillChars }

NotValidated == [ok |-> FALSE, message |-> ""]

ValidateInit ==
    /\ text \in Texts
    /\ valid = NotValidated
    /\ vpc = "input"

\* validate_input(text)
Validate ==
    /\ vpc = "input"
    /\ valid' = ValidateInput(text)
    /\ vpc' = "validated"
    /\ UNCHANGED text
    /\ UNCHANGED notValidateVars

ValidateNext == Validate

ValidateIdle == text = EMPTY /\ valid = NotValidated /\ vpc = "idle"

(* C2: validate_input(text) is invalid exactly when text is empty, is only *)
(* whitespace, or is longer than 2953; a text of length exactly 2953 that  *)
(* is not all whitespace is valid.                                         *)
C2_ValidateExactly ==
    vpc = "validated"
        => (valid.ok <=> ~(\/ Len(text) = 0
                           \/ \A i \in 1..Len(text) : text[i] \in Whitespace
                           \/ Len(text) > 2953))

C2_Witness ==
    /\ vpc = "validated"
    /\ Len(text) = 2953
    /\ text[1] = " "
    /\ valid.ok

----------------------------------------------------------------------------
(* Inputs of generate_qr *)

\* how many of a call's steps raise at most
MaxFaults == 2

HELLO == <<"h", "e", "l", "l", "o">>
MY_QR == <<"m", "y", "_", "q", "r">>
GenFormats == { FMT_PNG, FMT_SVG, FMT_BOTH, <<"P", "N", "G">>, <<"g", "i", "f">> }
GenColors == { BLACK, WHITE, BLUE }
Envs == { e \in SUBSET Faults : Cardinality(e) <= MaxFaults }
NoOutcome == [ret |-> FALSE, log |-> << >>, fs |-> EmptyDict]
NoArgs == [raw_text |-> EMPTY, file_name |-> EMPTY, output_format |-> EMPTY,
           fg_color |-> EMPTY, bg_color |-> EMPTY]

GenInit ==
    /\ g_args \in [raw_text : {HELLO}, file_name : {MY_QR}, output_format : GenFormats,
                   fg_color : GenColors, bg_color : GenColors]
    /\ g_env \in Envs
    /\ g_out = NoOutcome
    /\ gpc = "input"

\* one call of generate_qr, in an output directory without files
CallGenerateQr ==
    /\ gpc = "input"
    /\ g_out' = GenerateQr(g_args.raw_text, g_args.file_name, g_args.output_format,
                           g_args.fg_color, g_args.bg_color, g_env, EmptyDict)
    /\ gpc' = "returned"
    /\ UNCHANGED <<g_args, g_env>>
    /\ UNCHANGED notGenVars

GenNext == CallGenerateQr

GenIdle == g_args = NoArgs /\ g_env = {} /\ g_out = NoOutcome /\ gpc = "idle"

Raised(log) == { log[i][1] : i \in { j \in 1..Len(log) : log[j][2] = "raise" } }
Called(log) == { log[i][1] : i \in 1..Len(log) }
KnownFormat(f) == Lower(f) \in {FMT_PNG, FMT_SVG, FMT_BOTH}
\* the exceptions generate_colored_qr catches itself
CaughtInRenderer == {"render", "save"}

(* C4 as stated: for png, svg and both and every colour pair, an exception *)
(* of the encoder or of any file write makes generate_qr return False and  *)
(* ends the call there, without another attempt.                           *)
C4_AnyExceptionFails ==
    (gpc = "returned" /\ KnownFormat(g_args.output_format) /\ Raised(g_out.log) # {})
        => /\ g_out.ret = FALSE
           /\ g_out.log[Len(g_out.log)][2] = "raise"

(* C4 amended: an exception of the encoder, of the SVG write or of the     *)
(* built-in PNG writer (also when it is called as the fallback) makes      *)
(* generate_qr return False and ends the call there; for 'both' an SVG     *)
(* failure leaves the PNG unattempted. An exception inside the custom      *)
(* colour renderer is caught there and answered by one call of the         *)
(* built-in writer, whose outcome decides the result. No step runs twice,  *)
(* and False is returned only after an exception.                          *)
C4_FailureUnlessRendererFallback ==
    (gpc = "returned" /\ KnownFormat(g_args.output_format))
        => LET log == g_out.log
               n == Len(log)
           IN /\ (Raised(log) \ CaughtInRenderer # {})
                     => (g_out.ret = FALSE /\ log[n][2] = "raise")
              /\ \A i \in 1..n :
                     (log[i][2] = "raise" /\ log[i][1] \in CaughtInRenderer)
                         => (n = i + 1 /\ log[n][1] = "fallback_png")
              /\ (Raised(log) # {} /\ Raised(log) \subseteq CaughtInRenderer)
                     => g_out.ret = TRUE
              /\ g_out.ret = FALSE => (n > 0 /\ log[n][2] = "raise")
              /\ \A i, j \in 1..n : log[i][1] = log[j][1] => i = j
              /\ (Raised(log) \cap {"svg", "open", "write"} # {})
                     => Called(log) \cap {"png", "render", "save", "fallback_png"} = {}

C4_Witness ==
    /\ gpc = "returned"
    /\ Lower(g_args.output_format) = FMT_BOTH
    /\ g_args.fg_color = BLUE
    /\ g_env = {"save"}
    /\ g_out.ret = TRUE
    /\ g_out.log[Len(g_out.log)] = <<"fallback_png", "ok">>

----------------------------------------------------------------------------
(* Inputs of read_qr *)

\* how many QR codes the decoder finds in one image at most
MaxCodes == 2

DecodedTexts ==
    { WIFI_PREFIX \o <<"S", ":", "n", ";", ";">>,
      WIFI_PREFIX \o HTTP,
      <<"w", "i", "f", "i", ":", "x">>,
      HTTP \o <<"f", "o", "o">>,
      HTTP \o <<"s", ":", "/", "/", "a">>,
      <<"H", "T", "T", "P", ":", "/", "/", "x">>,
      <<"h", "t", "t">>,
      TEL \o <<"1">>,
      <<"T", "e", "l", ":", "1">>,
      MAILTO \o <<"a">>,
      <<" ">> \o HTTP,
      HELLO,
      EMPTY }
DecodedResults ==
    { [text |-> t, utf8 |-> TRUE] : t \in DecodedTexts } \cup { [text |-> EMPTY, utf8 |-> FALSE] }
ResultLists == UNION { [1..n -> DecodedResults] : n \in 0..MaxCodes }

NotRead ==
    [ret |-> FALSE, message |-> "", content |-> << >>, tags |-> << >>, wifi |-> NoDisplay,
     propagated |-> FALSE]
NoWorld == [exists |-> FALSE, open_raises |-> FALSE, decode_raises |-> FALSE, results |-> << >>]

ReadInit ==
    /\ r_world \in [exists : BOOLEAN, open_raises : BOOLEAN, decode_raises : BOOLEAN,
                    results : ResultLists]
    /\ r_out = NotRead
    /\ rpc = "input"

\* one call of read_qr
CallReadQr ==
    /\ rpc = "input"
    /\ r_out' = ReadQr(r_world)
    /\ rpc' = "returned"
    /\ UNCHANGED r_world
    /\ UNCHANGED notReadVars

ReadNext == CallReadQr

ReadIdle == r_world = NoWorld /\ r_out = NotRead /\ rpc = "idle"

(* C5: read_qr never raises to its caller; it returns False when the path  *)
(* does not exist, when the decoder returns no result and when loading or  *)
(* decoding raises; it returns True only when the file exists and the      *)
(* decoder returned at least one result, and then reports the first result *)
(* alone.                                                                  *)
C5_ReadNeverRaises ==
    rpc = "returned"
        => /\ r_out.propagated = FALSE
           /\ (\/ ~r_world.exists
               \/ r_world.open_raises
               \/ r_world.decode_raises
               \/ Len(r_world.results) = 0
               \/ ~r_world.results[1].utf8) => r_out.ret = FALSE
           /\ r_out.ret = TRUE
                  => /\ r_world.exists
                     /\ Len(r_world.results) >= 1
                     /\ r_out.content = <<r_world.results[1].text>>

C5_Witness ==
    /\ rpc = "returned"
    /\ r_out.ret = TRUE
    /\ Len(r_world.results) = 2
    /\ r_world.results[1].text = HELLO
    /\ r_world.results[2].text = TEL \o <<"1">>
    /\ r_out.content = <<HELLO>>

HasPrefixChars(t, n, chars) == Len(t) >= n /\ \A i \in 1..n : t[i] = chars[i]

(* C6: read_qr prints at most one tag for a decoded text, by the first     *)
(* matching case-sensitive prefix among 'WIFI:', 'http', 'tel:' and        *)
(* 'mailto:'; a text with none of them gets no tag and 'httpfoo' is a URL. *)
C6_OneTagByPrefix ==
    (rpc = "returned" /\ r_out.ret = TRUE)
        => LET t == r_world.results[1].text
               wifi == HasPrefixChars(t, 5, <<"W", "I", "F", "I", ":">>)
               url == HasPrefixChars(t, 4, <<"h", "t", "t", "p">>)
               phone == HasPrefixChars(t, 4, <<"t", "e", "l", ":">>)
               email == HasPrefixChars(t, 7, <<"m", "a", "i", "l", "t", "o", ":">>)
           IN /\ Len(r_out.tags) <= 1
              /\ r_out.tags = <<"WiFi">> <=> wifi
              /\ r_out.tags = <<"URL">> <=> (~wifi /\ url)
              /\ r_out.tags = <<"Phone">> <=> (~wifi /\ ~url /\ phone)
              /\ r_out.tags = <<"Email">> <=> (~wifi /\ ~url /\ ~phone /\ email)
              /\ r_out.tags = << >> <=> ~(wifi \/ url \/ phone \/ email)

C6_Witness ==
    /\ rpc = "returned"
    /\ r_out.ret = TRUE
    /\ r_world.results[1].text = <<"h", "t", "t", "p", "f", "o", "o">>
    /\ r_out.tags = <<"URL">>

----------------------------------------------------------------------------
(* main *)

IN_PNG == <<"i", "n", ".", "p", "n", "g">>
LongSsid == Fill("a", MaxQrLen)

\* args.wifi: the values after --wifi, << >> when the flag is absent (nargs='+')
WifiArgs ==
    { << >>, << <<"n">> >>, << <<"n">>, <<"p">> >>, << <<"n">>, <<"p">>, WEP >>,
      << <<"n">>, <<"p">>, NOPASS, <<"T", "r", "u", "e">> >>,
      << <<"n">>, <<"p">>, WPA, <<"y", "e", "s">> >>,
      << LongSsid, <<"p">> >> }
\* -i, -d, -o: EMPTY when the flag is absent or given as ''
InputArgs == { EMPTY, HELLO, <<" ", " ">>, Fill("a", MaxQrLen), Fill("a", MaxQrLen + 1) }
DecodeArgs == { EMPTY, IN_PNG }
OutputArgs == { EMPTY, MY_QR }
FormatArgs == { FMT_PNG, FMT_SVG, FMT_BOTH }
FgArgs == { BLACK, RED }
BgArgs == { WHITE, YELLOW }

\* what the user types in interactive mode
Choices == { <<"1">>, <<" ", "2", " ">>, <<"2">>, <<"3">>, <<"4">>, EMPTY }
TypedTexts == { HELLO, EMPTY, <<" ">> }
TypedSsids == { <<"n">>, LongSsid }
TypedSecurities == { EMPTY, WEP }
TypedHidden == { EMPTY, <<"y">>, <<"Y", "e", "s">>, <<"n">> }

\* the calls that raise during the run, and the file a decode request names
MainEnvs == { {}, {"create"}, {"png"}, {"svg"}, {"save"}, {"render", "fallback_png"} }
MainWorlds ==
    { NoWorld,
      [exists |-> TRUE, open_raises |-> FALSE, decode_raises |-> FALSE, results |-> << >>],
      [exists |-> TRUE, open_raises |-> FALSE, decode_raises |-> FALSE,
       results |-> <<[text |-> HELLO, utf8 |-> TRUE]>>] }

NoRun == [branch |-> "", events |-> << >>, fs |-> EmptyDict, success |-> FALSE]
NoCommandLine ==
    [wifi |-> << >>, decode |-> EMPTY, input |-> EMPTY, output |-> EMPTY,
     format |-> EMPTY, fg_color |-> EMPTY, bg_color |-> EMPTY]

MainInit ==
    /\ m_args \in [wifi : WifiArgs, decode : DecodeArgs, input : InputArgs, output : OutputArgs,
                   format : FormatArgs, fg_color : FgArgs, bg_color : BgArgs]
    /\ m_out = NoRun
    /\ mpc = "start"

\* a call of validate_input with its verdict
ValidateEvent(t) == <<"validate_input", t, ValidateInput(t).ok>>

\* the WiFi generation both entry points end in
RunWifi(branch, s, p, t, h, file_name, env) ==
    LET w == GenerateWifiQr(s, p, t, h, file_name, env, EmptyDict)
    IN [branch |-> branch, events |-> w.events, fs |-> w.result.fs, success |-> w.result.ret]

\* validate_input, then generate_qr when the text is valid
RunText(branch, raw_text, file_name, output_format, fg_color, bg_color, env) ==
    IF ~ValidateInput(raw_text).ok
    THEN [branch |-> branch, events |-> <<ValidateEvent(raw_text)>>, fs |-> EmptyDict,
          success |-> FALSE]
    ELSE LET g == GenerateQr(raw_text, file_name, output_format, fg_color, bg_color,
                             env, EmptyDict)
         IN [branch |-> branch,
             events |-> <<ValidateEvent(raw_text),
                          GenerateQrEvent(raw_text, file_name, output_format, fg_color, bg_color)>>,
             fs |-> g.fs, success |-> g.ret]

RunDecode(branch, path, w) ==
    [branch |-> branch, events |-> << <<"read_qr", path>> >>, fs |-> EmptyDict,
     success |-> ReadQr(w).ret]

\* if args.wifi: ...
MainWifi ==
    /\ mpc = "start"
    /\ m_args.wifi # << >>
    /\ \E env \in MainEnvs :
         m_out' =
           IF Len(m_args.wifi) < 2
           THEN [branch |-> "cli_wifi", events |-> << >>, fs |-> EmptyDict, success |-> FALSE]
           ELSE LET s == m_args.wifi[1]
                    p == m_args.wifi[2]
                    t == IF Len(m_args.wifi) > 2 THEN m_args.wifi[3] ELSE WPA
                    h == IF Len(m_args.wifi) > 3 THEN Lower(m_args.wifi[4]) = STR_TRUE ELSE FALSE
                    file_name == IF m_args.output # EMPTY THEN m_args.output ELSE WifiFileName(s)
                IN RunWifi("cli_wifi", s, p, t, h, file_name, env)
    /\ mpc' = "done"
    /\ UNCHANGED m_args
    /\ UNCHANGED notMainVars

\* if args.decode: ...
MainDecode ==
    /\ mpc = "start"
    /\ m_args.wifi = << >>
    /\ m_args.decode # EMPTY
    /\ \E w \in MainWorlds : m_out' = RunDecode("cli_decode", m_args.decode, w)
    /\ mpc' = "done"
    /\ UNCHANGED m_args
    /\ UNCHANGED notMainVars

\* if args.input: ...
MainInput ==
    /\ mpc = "start"
    /\ m_args.wifi = << >>
    /\ m_args.decode = EMPTY
    /\ m_args.input # EMPTY
    /\ \E env \in MainEnvs :
         m_out' = RunText("cli_text", m_args.input,
                          IF m_args.output # EMPTY THEN m_args.output ELSE NowDashed,
                          m_args.format, m_args.fg_color, m_args.bg_color, env)
    /\ mpc' = "done"
    /\ UNCHANGED m_args
    /\ UNCHANGED notMainVars

Interactive == m_args.wifi = << >> /\ m_args.decode = EMPTY /\ m_args.input = EMPTY

\* choice == '1'
InteractiveText ==
    /\ mpc = "start"
    /\ Interactive
    /\ \E choice \in Choices, raw_text \in TypedTexts, env \in MainEnvs :
         /\ Strip(choice) = <<"1">>
         /\ m_out' = RunText("interactive_text", raw_text, NowDashed, DefaultOutputFormat,
                             DefaultFgColor, DefaultBgColor, env)
    /\ mpc' = "done"
    /\ UNCHANGED m_args
    /\ UNCHANGED notMainVars

\* choice == '2'
InteractiveWifi ==
    /\ mpc = "start"
    /\ Interactive
    /\ \E choice \in Choices, s \in TypedSsids, p \in TypedTexts, t \in TypedSecurities,
          h \in TypedHidden, env \in MainEnvs :
         /\ Strip(choice) = <<"2">>
         /\ m_out' = RunWifi("interactive_wifi", s, p, IF t = EMPTY THEN WPA ELSE t,
                             StartsWith(Lower(h), <<"y">>), WifiFileName(s), env)
    /\ mpc' = "done"
    /\ UNCHANGED m_args
    /\ UNCHANGED notMainVars

\* choice == '3'
InteractiveDecode ==
    /\ mpc = "start"
    /\ Interactive
    /\ \E choice \in Choices, w \in MainWorlds :
         /\ Strip(choice) = <<"3">>
         /\ m_out' = RunDecode("interactive_decode", IN_PNG, w)
    /\ mpc' = "done"
    /\ UNCHANGED m_args
    /\ UNCHANGED notMainVars

\* else: Invalid choice
InteractiveInvalid ==
    /\ mpc = "start"
    /\ Interactive
    /\ \E choice \in Choices :
         /\ Strip(choice) \notin {<<"1">>, <<"2">>, <<"3">>}
         /\ m_out' = [branch |-> "interactive_invalid", events |-> << >>, fs |-> EmptyDict,
                      success |-> FALSE]
    /\ mpc' = "done"
    /\ UNCHANGED m_args
    /\ UNCHANGED notMainVars

MainNext ==
    \/ MainWifi
    \/ MainDecode
    \/ MainInput
    \/ InteractiveText
    \/ InteractiveWifi
    \/ InteractiveDecode
    \/ InteractiveInvalid

MainIdle == m_args = NoCommandLine /\ m_out = NoRun /\ mpc = "idle"

(* C3: on every path of main, generate_qr is called only after             *)
(* validate_input returned valid for the very text being encoded, so no    *)
(* path reaches generate_qr with a text that is empty after trimming or    *)
(* longer than 2953 characters.                                            *)
C3_GenerateOnlyAfterValidate ==
    mpc = "done"
        => \A i \in 1..Len(m_out.events) :
               m_out.events[i][1] = "generate_qr"
                   => /\ \E j \in 1..(i - 1) :
                             m_out.events[j] = <<"validate_input", m_out.events[i][2], TRUE>>
                      /\ \E k \in 1..Len(m_out.events[i][2]) :
                             m_out.events[i][2][k] \notin Whitespace
                      /\ Len(m_out.events[i][2]) <= 2953

WifiBranches == {"cli_wifi", "interactive_wifi"}

(* C10: a WiFi generation, from --wifi or from interactive option 2, calls *)
(* generate_qr with format 'png' and black on white whatever format and    *)
(* colours were requested, and writes at most qrcodes/<name>.png with the  *)
(* built-in writer: never an SVG, never a custom-coloured raster.          *)
C10_WifiIgnoresFormatAndColours ==
    (mpc = "done" /\ m_out.branch \in WifiBranches)
        => /\ Len(m_out.events) <= 1
           /\ \A i \in 1..Len(m_out.events) :
                  LET e == m_out.events[i]
                  IN /\ e[1] = "generate_qr"
                     /\ e[4] = <<"p", "n", "g">>
                     /\ e[5] = <<"b", "l", "a", "c", "k">>
                     /\ e[6] = <<"w", "h", "i", "t", "e">>
                     /\ \A path \in DOMAIN m_out.fs :
                            /\ path = <<"q", "r", "c", "o", "d", "e", "s", "/">> \o e[3]
                                          \o <<".", "p", "n", "g">>
                            /\ m_out.fs[path] = "png_builtin"
           /\ m_out.events = << >> => DOMAIN m_out.fs = {}

C10_Witness ==
    /\ mpc = "done"
    /\ m_out.branch = "cli_wifi"
    /\ m_args.format = FMT_BOTH
    /\ m_args.fg_color = RED
    /\ m_args.bg_color = YELLOW
    /\ m_args.output = MY_QR
    /\ DOMAIN m_out.fs = {QRCODES_DIR \o MY_QR \o EXT_PNG}
    /\ m_out.success

----------------------------------------------------------------------------
(* Inputs of generate_colored_qr *)

\* the QR versions (side 17 + 4 * version) and the data mask patterns of the matrices
MaxVersion == 1
MaxMask == 3

\* A QR symbol as qr_code.code holds it, without quiet zone: the three finder patterns,
\* their separators, the timing patterns and the dark module are fixed by the QR
\* standard; the other cells follow a data mask pattern.
InFinder(r, c, r0, c0) == r \in r0..(r0 + 6) /\ c \in c0..(c0 + 6)
FinderDark(r, c, r0, c0) ==
    \/ r \in {r0, r0 + 6} \/ c \in {c0, c0 + 6}
    \/ (r \in (r0 + 2)..(r0 + 4) /\ c \in (c0 + 2)..(c0 + 4))
MaskDark(mask, r, c) ==
    CASE mask = 0 -> (r + c) % 2 = 0
      [] mask = 1 -> r % 2 = 0
      [] mask = 2 -> c % 3 = 0
      [] mask = 3 -> (r + c) % 3 = 0
      [] mask = 4 -> ((r \div 2) + (c \div 3)) % 2 = 0
      [] mask = 5 -> ((r * c) % 2) + ((r * c) % 3) = 0
      [] mask = 6 -> (((r * c) % 2) + ((r * c) % 3)) % 2 = 0
      [] OTHER -> (((r + c) % 2) + ((r * c) % 3)) % 2 = 0
CellDark(n, mask, r, c) ==
    IF InFinder(r, c, 0, 0) THEN FinderDark(r, c, 0, 0)
    ELSE IF InFinder(r, c, 0, n - 7) THEN FinderDark(r, c, 0, n - 7)
    ELSE IF InFinder(r, c, n - 7, 0) THEN FinderDark(r, c, n - 7, 0)
    ELSE IF (r <= 7 /\ (c <= 7 \/ c >= n - 8)) \/ (r >= n - 8 /\ c <= 7) THEN FALSE
    ELSE IF r = 6 THEN c % 2 = 0
    ELSE IF c = 6 THEN r % 2 = 0
    ELSE IF r = n - 8 /\ c = 8 THEN TRUE
    ELSE MaskDark(mask, r, c)
QrMatrix(version, mask) ==
    LET n == 17 + 4 * version
    IN [r \in 1..n |-> [c \in 1..n |-> IF CellDark(n, mask, r - 1, c - 1) THEN 1 ELSE 0]]
Matrices == { QrMatrix(v, m) : v \in 1..MaxVersion, m \in 0..MaxMask }

\* --fg and --bg; generate_qr hands black on white to the built-in writer instead
RenderColors == { BLACK, WHITE, BLUE, YELLOW }
NoImage == ImageNew(0, <<0, 0, 0>>, <<0, 0, 0>>)

RenderInit ==
    /\ modules \in Matrices
    /\ c_fg \in RenderColors
    /\ c_bg \in RenderColors
    /\ ~(c_fg = BLACK /\ c_bg = WHITE)
    /\ img = NoImage
    /\ cpc = "input"

\* generate_colored_qr(qr_code, output_path, fg_color, bg_color)
Render ==
    /\ cpc = "input"
    /\ img' = ColoredImage(modules, c_fg, c_bg)
    /\ cpc' = "saved"
    /\ UNCHANGED <<modules, c_fg, c_bg>>
    /\ UNCHANGED notRenderVars

RenderNext == Render

RenderIdle ==
    /\ modules = << >> /\ c_fg = EMPTY /\ c_bg = EMPTY /\ img = NoImage /\ cpc = "idle"

\* the first dark module in the loops' order
FirstDark(mods) ==
    LET n == Len(mods)
        k == CHOOSE i \in 0..(n * n - 1) :
                 /\ mods[(i \div n) + 1][(i % n) + 1] # 0
                 /\ \A j \in 0..(i - 1) : mods[(j \div n) + 1][(j % n) + 1] = 0
    IN <<k \div n, k % n>>

(* C7: with fg 'blue' and bg 'yellow' on a 21 x 21 QR matrix, the image's  *)
(* corner pixel (0, 0) is yellow (255, 255, 0) and every pixel of the      *)
(* first dark module's scale x scale block is blue (0, 0, 255).            *)
C7_CornerYellowFirstBlockBlue ==
    (cpc = "saved" /\ c_fg = BLUE /\ c_bg = YELLOW /\ Len(modules) = 21)
        => /\ GetPixel(img, 0, 0) = <<255, 255, 0>>
           /\ LET d == FirstDark(modules)
              IN \A x \in (d[2] * 10)..(d[2] * 10 + 9), y \in (d[1] * 10)..(d[1] * 10 + 9) :
                     GetPixel(img, x, y) = <<0, 0, 255>>

(* C9: the custom-colour image is moduleCount x scale pixels per side      *)
(* (scale 10) and a pixel (x, y) has the foreground colour exactly when    *)
(* modules[y div scale][x div scale] is true, the background colour        *)
(* otherwise: no painted block reaches into a neighbouring module.         *)
C9_BlockPerModule ==
    (cpc = "saved" /\ ColorGet(c_fg, <<0, 0, 0>>) # ColorGet(c_bg, <<255, 255, 255>>))
        => /\ img.size = Len(modules) * 10
           /\ \A x \in 0..(img.size - 1), y \in 0..(img.size - 1) :
                  GetPixel(img, x, y) =
                      IF modules[(y \div 10) + 1][(x \div 10) + 1] # 0
                      THEN ColorGet(c_fg, <<0, 0, 0>>)
                      ELSE ColorGet(c_bg, <<255, 255, 255>>)

----------------------------------------------------------------------------
(* Specifications *)

WifiSpecInit == WifiInit /\ ValidateIdle /\ GenIdle /\ ReadIdle /\ MainIdle /\ RenderIdle
SpecWifi == WifiSpecInit /\ [][WifiNext]_vars

ValidateSpecInit == ValidateInit /\ WifiIdle /\ GenIdle /\ ReadIdle /\ MainIdle /\ RenderIdle
SpecValidate == ValidateSpecInit /\ [][ValidateNext]_vars

GenSpecInit == GenInit /\ WifiIdle /\ ValidateIdle /\ ReadIdle /\ MainIdle /\ RenderIdle
SpecGen == GenSpecInit /\ [][GenNext]_vars

ReadSpecInit == ReadInit /\ WifiIdle /\ ValidateIdle /\ GenIdle /\ MainIdle /\ RenderIdle
SpecRead == ReadSpecInit /\ [][ReadNext]_vars

MainSpecInit == MainInit /\ WifiIdle /\ ValidateIdle /\ GenIdle /\ ReadIdle /\ RenderIdle
SpecMain == MainSpecInit /\ [][MainNext]_vars

RenderSpecInit == RenderInit /\ WifiIdle /\ ValidateIdle /\ GenIdle /\ ReadIdle /\ MainIdle
SpecRender == RenderSpecInit /\ [][RenderNext]_vars

====
